---- MODULE Spec2Model ----
(***************************************************************************)
(* Firebase Auth middleware for the echo web framework.                    *)
(*                                                                         *)
(* The repository holds two revisions of firebase_auth.go:                 *)
(*   "v1"  src/firebase_auth.go       (no roles, no ContextUserIDKey)      *)
(*   "v2"  src/unnamed/part_000       (ContextUserIDKey, GetRoles)         *)
(* The model builds one of them (rev), constructs the middleware with a    *)
(* configuration (WithConfig / FirebaseAuth) and serves requests one at a  *)
(* time.  Go strings are TLA+ strings; Go's 0-based parts[1] is the        *)
(* 1-based parts[2].                                                       *)
(***************************************************************************)
EXTENDS Integers, Sequences, FiniteSets, TLC

VARIABLES
    rev,      \* the revision of firebase_auth.go that is built
    input,    \* the Config value handed to WithConfig
    mw,       \* the constructed middleware: status, config after defaults, extractor
    served,   \* number of requests this middleware instance has handled
    phase,    \* "start" | "idle" | "done" | "aborted"
    req,      \* the request being handled
    remote,   \* what the identity provider answers for this request
    ctx,      \* the request's echo.Context store (key -> value)
    events,   \* calls leaving the handler, in order: remote calls, c.Set, GetRoles, next
    auth,     \* what the extractor returned
    result    \* what the handler returned

vars == <<rev, input, mw, served, phase, req, remote, ctx, events, auth, result>>

\* How many requests one middleware instance serves in a run.
MaxRequests == 2

Revisions == {"v1", "v2"}

(***************************************************************************)
(* Errors and defaults                                                     *)
(***************************************************************************)
StatusBadRequest == 400
StatusUnauthorized == 401

ErrTokenMissing ==
    [Code |-> StatusBadRequest, Message |-> "Missing or malformed Firebase AuthID TOKEN"]

ErrTokenInvalidAsMissing == ErrTokenMissing

ErrTokenInvalid ==
    [Code |-> StatusUnauthorized, Message |-> "Invalid or expired Firebase AuthID TOKEN"]

HeaderAuthorization == "Authorization"

ContextKeyRoles == "roles"

\* middleware.DefaultSkipper is the skipper "nil" resolves to: it skips nothing.
DefaultFirebaseAuthConfig ==
    [ Skipper          |-> "DefaultSkipper",
      ContextIDKey     |-> "id-key",
      ContextUserKey   |-> "user",
      ContextUserIDKey |-> "userID",
      GetRoles         |-> "nil",
      TokenLookup      |-> "header:" \o HeaderAuthorization,
      AuthScheme       |-> "Bearer",
      CredentialJSON   |-> "" ]

(***************************************************************************)
(* Construction: WithConfig                                                *)
(***************************************************************************)
\* v1 fills Skipper, ContextUserKey, TokenLookup and AuthScheme; it has no
\* branch for ContextIDKey.
ApplyDefaultsV1(config) ==
    [ config EXCEPT
        !.Skipper        = IF @ = "nil" THEN DefaultFirebaseAuthConfig.Skipper ELSE @,
        !.ContextUserKey = IF @ = "" THEN DefaultFirebaseAuthConfig.ContextUserKey ELSE @,
        !.TokenLookup    = IF @ = "" THEN DefaultFirebaseAuthConfig.TokenLookup ELSE @,
        !.AuthScheme     = IF @ = "" THEN DefaultFirebaseAuthConfig.AuthScheme ELSE @ ]

\* v2 also fills ContextIDKey and ContextUserIDKey.
ApplyDefaultsV2(config) ==
    [ config EXCEPT
        !.Skipper          = IF @ = "nil" THEN DefaultFirebaseAuthConfig.Skipper ELSE @,
        !.ContextIDKey     = IF @ = "" THEN DefaultFirebaseAuthConfig.ContextIDKey ELSE @,
        !.ContextUserIDKey = IF @ = "" THEN DefaultFirebaseAuthConfig.ContextUserIDKey ELSE @,
        !.ContextUserKey   = IF @ = "" THEN DefaultFirebaseAuthConfig.ContextUserKey ELSE @,
        !.TokenLookup      = IF @ = "" THEN DefaultFirebaseAuthConfig.TokenLookup ELSE @,
        !.AuthScheme       = IF @ = "" THEN DefaultFirebaseAuthConfig.AuthScheme ELSE @ ]

ApplyDefaults(r, config) ==
    IF r = "v1" THEN ApplyDefaultsV1(config) ELSE ApplyDefaultsV2(config)

\* strings.Split(s, sep) for a one-character separator: always at least one part.
RECURSIVE SplitFrom(_, _, _, _)
SplitFrom(s, sep, i, cur) ==
    IF i > Len(s) THEN <<cur>>
    ELSE IF SubSeq(s, i, i) = sep
         THEN <<cur>> \o SplitFrom(s, sep, i + 1, "")
         ELSE SplitFrom(s, sep, i + 1, cur \o SubSeq(s, i, i))

Split(s, sep) == SplitFrom(s, sep, 1, "")

NoExtractor == [kind |-> "none", name |-> "", authScheme |-> ""]

tokenFromHeader(header, authScheme) ==
    [kind |-> "header", name |-> header, authScheme |-> authScheme]

tokenFromQuery(param) == [kind |-> "query", name |-> param, authScheme |-> ""]

tokenFromCookie(name) == [kind |-> "cookie", name |-> name, authScheme |-> ""]

\* parts[1] is read before the switch: fewer than two parts is an index out of
\* range, a run-time panic.
SelectExtractor(config) ==
    LET parts == Split(config.TokenLookup, ":")
    IN  IF Len(parts) < 2
        THEN [ok |-> FALSE, extractor |-> NoExtractor]
        ELSE [ok |-> TRUE,
              extractor |->
                 CASE parts[1] = "query"  -> tokenFromQuery(parts[2])
                   [] parts[1] = "cookie" -> tokenFromCookie(parts[2])
                   [] OTHER               -> tokenFromHeader(parts[2], config.AuthScheme)]

\* The credential documents tried.  firebase.NewApp / App.Auth belong to the
\* SDK: they succeed on the service-account document and fail on the other.
ServiceAccountJSON == "{\"type\":\"service_account\"}"
BrokenJSON == "{\"type\":"

ClientInitialises(credentialJSON) == credentialJSON = ServiceAccountJSON

\* The whole of WithConfig up to the returned closure.
Construct(r, config) ==
    LET cfg == ApplyDefaults(r, config)
        sel == SelectExtractor(cfg)
    IN  IF ~sel.ok
        THEN [status |-> "panic", reason |-> "index out of range",
              config |-> cfg, extractor |-> NoExtractor]
        ELSE IF Len(cfg.CredentialJSON) = 0
        THEN [status |-> "panic", reason |-> "requires CredentialJSON",
              config |-> cfg, extractor |-> sel.extractor]
        ELSE IF ~ClientInitialises(cfg.CredentialJSON)
        THEN [status |-> "panic", reason |-> "client",
              config |-> cfg, extractor |-> sel.extractor]
        ELSE [status |-> "ready", reason |-> "",
              config |-> cfg, extractor |-> sel.extractor]

NotBuilt ==
    [status |-> "none", reason |-> "", config |-> DefaultFirebaseAuthConfig,
     extractor |-> NoExtractor]

\* The configurations handed to WithConfig.  v1's Config has no
\* ContextUserIDKey and no GetRoles field: they stay at their zero values.
\* The context keys are configured to names that differ from one another
\* and from "auth-provider" and "roles".
Skippers == {"nil", "optionsSkipper"}
RolesFuncs == {"nil", "rolesByEmail", "rolesWithDefault"}
TokenLookups == {"", "query:token", "cookie:session", "form:token", "Authorization"}

Configs(r) ==
    [ Skipper          : Skippers,
      ContextIDKey     : {"", "claims"},
      ContextUserKey   : {"", "profile"},
      ContextUserIDKey : {""},
      GetRoles         : IF r = "v1" THEN {"nil"} ELSE RolesFuncs,
      TokenLookup      : TokenLookups,
      AuthScheme       : {""},
      CredentialJSON   : {"", ServiceAccountJSON, BrokenJSON} ]

(***************************************************************************)
(* Requests and the identity provider                                      *)
(***************************************************************************)
HeaderGetUser == "X-GetUser"

\* Header values: an optional scheme word, an optional space, an optional token.
HeaderValues ==
    { p \o sep \o t : p \in {"", "Bearer", "Basic"}, sep \in {"", " "}, t \in {"", "abc123"} }

\* A request carries its token in at most one place.  Cookie "-" stands for
\* no cookie of that name (a cookie may be present with an empty value).
NoCookie == "-"
Carriers ==
    { [Authorization |-> h, token |-> "", session |-> NoCookie] : h \in HeaderValues }
    \cup { [Authorization |-> "", token |-> "abc123", session |-> NoCookie],
           [Authorization |-> "", token |-> "", session |-> "abc123"],
           [Authorization |-> "", token |-> "", session |-> ""] }

Requests ==
    { [ Method  |-> m,
        Header  |-> [Authorization |-> c.Authorization, XGetUser |-> g],
        Query   |-> c.token,
        Cookie  |-> c.session ] :
      m \in {"GET", "OPTIONS"}, c \in Carriers, g \in {"", "true", "TRUE"} }

NoRequest ==
    [Method |-> "", Header |-> [Authorization |-> "", XGetUser |-> ""],
     Query |-> "", Cookie |-> NoCookie]

\* http.Header.Get: the value of the named header, "" when the request has none.
HeaderGet(r, name) ==
    CASE name = HeaderAuthorization -> r.Header.Authorization
      [] name = HeaderGetUser       -> r.Header.XGetUser
      [] OTHER                      -> ""

\* echo.Context.QueryParam: "" when the parameter is absent.
QueryParam(r, name) == IF name = "token" THEN r.Query ELSE ""

\* echo.Context.Cookie: http.ErrNoCookie when the request has no such cookie.
CookieGet(r, name) ==
    IF name = "session" /\ r.Cookie # NoCookie
    THEN [ok |-> TRUE, Value |-> r.Cookie]
    ELSE [ok |-> FALSE, Value |-> ""]

\* The skipper functions: middleware.DefaultSkipper and the README's optionsSkipper.
ApplySkipper(skipper, r) ==
    CASE skipper = "optionsSkipper" -> r.Method = "OPTIONS"
      [] OTHER                      -> FALSE

\* Verified tokens the provider may return: the subject id and
\* Firebase.Identities, a map that has an "email" entry (a list) or none.
VerifiedTokens ==
    { [UID |-> "uid-alice", Identities |-> [keys |-> {"email"}, email |-> <<"alice@example.com">>]],
      [UID |-> "uid-bob",   Identities |-> [keys |-> {"email"}, email |-> <<"bob@example.com">>]],
      [UID |-> "uid-dave",  Identities |-> [keys |-> {"email"}, email |-> <<>>]],
      [UID |-> "uid-carol", Identities |-> [keys |-> {},        email |-> <<>>]] }

NoToken == [UID |-> "", Identities |-> [keys |-> {}, email |-> <<>>]]

\* What the provider answers for one request: VerifyIDToken's result and
\* GetUser's result for the verified subject.
Remotes ==
    [ verifyOK : {FALSE}, tok : {NoToken}, userOK : {FALSE} ]
    \cup [ verifyOK : {TRUE}, tok : VerifiedTokens, userOK : BOOLEAN ]

NoRemote == [verifyOK |-> FALSE, tok |-> NoToken, userOK |-> FALSE]

\* json.Marshal of the verified token and of the user record.
RECURSIVE JoinQuoted(_)
JoinQuoted(xs) ==
    IF Len(xs) = 0 THEN ""
    ELSE "\"" \o Head(xs) \o "\"" \o (IF Len(xs) > 1 THEN "," ELSE "") \o JoinQuoted(Tail(xs))

MarshalToken(tok) ==
    "{\"uid\":\"" \o tok.UID \o "\",\"firebase\":{\"identities\":{"
    \o (IF "email" \in tok.Identities.keys
        THEN "\"email\":[" \o JoinQuoted(tok.Identities.email) \o "]" ELSE "")
    \o "}}}"

MarshalUser(uid) == "{\"rawId\":\"" \o uid \o "\"}"

\* The GetRoles closures tried: a table keyed by email, and one that also
\* grants every caller a default role.
GetRolesApply(getRoles, email) ==
    CASE getRoles = "rolesByEmail" ->
            IF email = "alice@example.com" THEN <<"admin">> ELSE <<>>
      [] getRoles = "rolesWithDefault" ->
            IF email = "alice@example.com" THEN <<"user", "admin">> ELSE <<"user">>
      [] OTHER -> <<>>

(***************************************************************************)
(* Token extraction                                                        *)
(***************************************************************************)
\* The closure tokenFromHeader returns: auth[:l] == authScheme with
\* len(auth) > l+1, then auth[l+1:].  The byte at index l is skipped unread.
ExtractFromHeader(header, authScheme, r) ==
    LET a == HeaderGet(r, header)
        l == Len(authScheme)
    IN  IF Len(a) > l + 1 /\ SubSeq(a, 1, l) = authScheme
        THEN [ok |-> TRUE, token |-> SubSeq(a, l + 2, Len(a))]
        ELSE [ok |-> FALSE, token |-> ""]

ExtractFromQuery(param, r) ==
    LET token == QueryParam(r, param)
    IN  IF token = "" THEN [ok |-> FALSE, token |-> ""]
        ELSE [ok |-> TRUE, token |-> token]

ExtractFromCookie(name, r) ==
    LET cookie == CookieGet(r, name)
    IN  IF ~cookie.ok THEN [ok |-> FALSE, token |-> ""]
        ELSE [ok |-> TRUE, token |-> cookie.Value]

Extract(extractor, r) ==
    CASE extractor.kind = "query"  -> ExtractFromQuery(extractor.name, r)
      [] extractor.kind = "cookie" -> ExtractFromCookie(extractor.name, r)
      [] OTHER -> ExtractFromHeader(extractor.name, extractor.authScheme, r)

(***************************************************************************)
(* The request handler                                                     *)
(*                                                                         *)
(* A frame is what one execution of the handler has done so far: the       *)
(* context store, the calls it made in order, the extractor's answer and   *)
(* the handler's outcome.                                                  *)
(***************************************************************************)
EmptyCtx == [k \in {} |-> ""]

NoAuth == [ok |-> FALSE, token |-> ""]

NoResult == [kind |-> "none", Code |-> 0, Message |-> "", Internal |-> ""]

NewFrame == [ctx |-> EmptyCtx, events |-> <<>>, auth |-> NoAuth, result |-> NoResult]

\* c.Set(key, val)
Set(f, key, val) ==
    [ f EXCEPT
        !.ctx    = [k \in (DOMAIN @) \cup {key} |-> IF k = key THEN val ELSE @[k]],
        !.events = Append(@, [op |-> "Set", arg |-> key]) ]

\* A call that leaves the handler: client.GetUser, client.VerifyIDToken, config.GetRoles.
Call(f, op, arg) == [f EXCEPT !.events = Append(@, [op |-> op, arg |-> arg])]

\* return next(c)
InvokeNext(f) ==
    [ f EXCEPT
        !.events = Append(@, [op |-> "next", arg |-> ""]),
        !.result = [kind |-> "next", Code |-> 0, Message |-> "", Internal |-> ""] ]

\* return err, an *echo.HTTPError
ReturnError(f, e, internal) ==
    [f EXCEPT !.result =
        [kind |-> "error", Code |-> e.Code, Message |-> e.Message, Internal |-> internal]]

\* unauthorized(err); v1 writes the same literal inline.
unauthorized(f, err) == ReturnError(f, ErrTokenInvalid, err)

\* A run-time panic unwinds the handler: nothing is returned.
Panic(f, why) ==
    [f EXCEPT !.result =
        [kind |-> "panic", Code |-> 0, Message |-> "", Internal |-> why]]

\* wantUser == "true": one GetUser by the verified UID, then next.
FetchProfileEager(config, r, rm, f) ==
    IF HeaderGet(r, HeaderGetUser) = "true"
    THEN LET f1 == Set(Call(f, "GetUser", rm.tok.UID),
                       config.ContextUserKey, MarshalUser(rm.tok.UID))
         IN  IF ~rm.userOK THEN unauthorized(f1, "GetUser failed")
             ELSE InvokeNext(f1)
    ELSE InvokeNext(f)

FetchProfile(config, r, rm, f) ==
    IF HeaderGet(r, HeaderGetUser) = "true"
    THEN LET f1 == Call(f, "GetUser", rm.tok.UID)
         IN  IF ~rm.userOK THEN unauthorized(f1, "GetUser failed")
             ELSE InvokeNext(Set(f1, config.ContextUserKey, MarshalUser(rm.tok.UID)))
    ELSE InvokeNext(f)

\* v1, after VerifyIDToken succeeded.
PopulateV1(config, r, rm, f) ==
    LET f1 == Set(f, config.ContextIDKey, MarshalToken(rm.tok))
        f2 == Set(f1, "auth-provider", "firebase")
    IN  FetchProfile(config, r, rm, f2)

\* v2, after VerifyIDToken succeeded.  The one-value type assertion
\* Identities["email"].([]interface{}) panics when the map has no "email".
PopulateV2(config, r, rm, f) ==
    IF "email" \notin rm.tok.Identities.keys
    THEN Panic(f, "interface conversion: interface {} is nil")
    ELSE
    LET emailInterface == rm.tok.Identities.email
        f1 == IF Len(emailInterface) > 0
              THEN Set(f, config.ContextUserIDKey, emailInterface[1]) ELSE f
        f2 == Set(f1, config.ContextIDKey, MarshalToken(rm.tok))
        f3 == Set(f2, "auth-provider", "firebase")
    IN  IF config.GetRoles # "nil"
        THEN LET f4    == Call(f3, "GetRoles", config.ContextUserIDKey)
                 roles == GetRolesApply(config.GetRoles, config.ContextUserIDKey)
             IN  IF Len(roles) = 0 THEN unauthorized(f4, "no roles found")
                 ELSE FetchProfile(config, r, rm, Set(f4, ContextKeyRoles, roles))
        ELSE FetchProfile(config, r, rm, f3)

Populate(rv, config, r, rm, f) ==
    IF rv = "v1" THEN PopulateV1(config, r, rm, f) ELSE PopulateV2(config, r, rm, f)

\* GetUser with the raw token (result dropped), then VerifyIDToken.
VerifyLenient(rv, config, r, rm, f) ==
    LET f1 == Call(f, "GetUser", f.auth.token)
        f2 == Call(f1, "VerifyIDToken", f.auth.token)
    IN  IF ~rm.verifyOK THEN InvokeNext(f2)
        ELSE Populate(rv, config, r, rm, f2)

Verify(rv, config, r, rm, f) ==
    LET f1 == Call(f, "GetUser", f.auth.token)
        f2 == Call(f1, "VerifyIDToken", f.auth.token)
    IN  IF ~rm.verifyOK THEN unauthorized(f2, "VerifyIDToken failed")
        ELSE Populate(rv, config, r, rm, f2)

Authenticate(rv, config, extractor, r, rm) ==
    LET ex == Extract(extractor, r)
        f  == [NewFrame EXCEPT !.auth = ex]
    IN  IF ~ex.ok THEN ReturnError(f, ErrTokenMissing, "")
        ELSE Verify(rv, config, r, rm, f)

HandlerNoSkip(rv, config, extractor, r, rm) ==
    Authenticate(rv, config, extractor, r, rm)

\* The closure WithConfig returns, applied to one request.
Handler(rv, config, extractor, r, rm) ==
    IF ApplySkipper(config.Skipper, r) THEN InvokeNext(NewFrame)
    ELSE Authenticate(rv, config, extractor, r, rm)

(***************************************************************************)
(* The state machine                                                       *)
(***************************************************************************)
Init ==
    /\ rev \in Revisions
    /\ input = DefaultFirebaseAuthConfig
    /\ mw = NotBuilt
    /\ served = 0
    /\ phase = "start"
    /\ req = NoRequest
    /\ remote = NoRemote
    /\ ctx = EmptyCtx
    /\ events = <<>>
    /\ auth = NoAuth
    /\ result = NoResult

Build(config) ==
    /\ phase = "start"
    /\ input' = config
    /\ mw' = Construct(rev, config)
    /\ phase' = IF mw'.status = "ready" THEN "idle" ELSE "aborted"
    /\ UNCHANGED <<rev, served, req, remote, ctx, events, auth, result>>

\* WithConfig(config)
WithConfig == \E config \in Configs(rev) : Build(config)

\* FirebaseAuth(): WithConfig on a copy of the default configuration.
FirebaseAuth == Build(DefaultFirebaseAuthConfig)

\* One request through the handler.  The provider never verifies an empty
\* token; when no token reaches it (skip, failed extraction) its answer is
\* the rejecting one.
ServeHTTP ==
    /\ phase = "idle"
    /\ served < MaxRequests
    /\ \E r \in Requests, rm \in Remotes :
          LET f == Handler(rev, mw.config, mw.extractor, r, rm)
          IN  /\ (f.auth.token = "" => ~rm.verifyOK)
              /\ req' = r
              /\ remote' = rm
              /\ ctx' = f.ctx
              /\ events' = f.events
              /\ auth' = f.auth
              /\ result' = f.result
    /\ served' = served + 1
    /\ phase' = "done"
    /\ UNCHANGED <<rev, input, mw>>

\* The framework drops the request and its context.
Release ==
    /\ phase = "done"
    /\ phase' = "idle"
    /\ req' = NoRequest
    /\ remote' = NoRemote
    /\ ctx' = EmptyCtx
    /\ events' = <<>>
    /\ auth' = NoAuth
    /\ result' = NoResult
    /\ UNCHANGED <<rev, input, mw, served>>

Next == WithConfig \/ FirebaseAuth \/ ServeHTTP \/ Release

Spec == Init /\ [][Next]_vars

(***************************************************************************)
(* Properties                                                              *)
(***************************************************************************)
Done == phase = "done"

Skipped == ApplySkipper(mw.config.Skipper, req)

WantUser == req.Header.XGetUser = "true"

CountOp(op) == Len(SelectSeq(events, LAMBDA e : e.op = op))

\* The calls that went to the identity provider, in order.
RemoteCalls == SelectSeq(events, LAMBDA e : e.op \in {"GetUser", "VerifyIDToken"})

Written == DOMAIN ctx

NextEvent == [op |-> "next", arg |-> ""]

InvalidMessage == "Invalid or expired Firebase AuthID TOKEN"
MissingMessage == "Missing or malformed Firebase AuthID TOKEN"

\* C1: a request that is not skipped, whose token is extracted and which the
\* verifier rejects ends in one error, 401 with the fixed message, and next
\* is never invoked.
C1_RejectedIs401 ==
    (Done /\ ~Skipped /\ auth.ok /\ ~remote.verifyOK) =>
        /\ result.kind = "error"
        /\ result.Code = 401
        /\ result.Message = InvalidMessage
        /\ CountOp("next") = 0

C1_Witness ==
    /\ Done /\ ~Skipped /\ auth.ok /\ ~remote.verifyOK
    /\ auth.token = "abc123"
    /\ CountOp("VerifyIDToken") = 1
    /\ result.kind = "error"

\* C2: a skipped request goes straight to next: nothing is written to the
\* context, no token is extracted and no remote call is made.
C2_SkipIsTransparent ==
    (Done /\ Skipped) =>
        /\ result.kind = "next"
        /\ Written = {}
        /\ auth = NoAuth
        /\ events = <<NextEvent>>

C2_Witness ==
    /\ Done /\ Skipped
    /\ req.Header.Authorization = "Bearer abc123"
    /\ events = <<NextEvent>>

\* C3 (as claimed): a verified token without X-GetUser: true leaves the
\* identity key and the provider tag set, the user key unset, and next is
\* invoked exactly once.
C3_VerifiedReachesNext ==
    (Done /\ ~Skipped /\ auth.ok /\ remote.verifyOK /\ ~WantUser) =>
        /\ mw.config.ContextIDKey \in Written
        /\ "auth-provider" \in Written
        /\ ctx["auth-provider"] = "firebase"
        /\ mw.config.ContextUserKey \notin Written
        /\ CountOp("next") = 1
        /\ result.kind = "next"

\* C4 (as claimed): with scheme Bearer, "Bearer abc123" gives "abc123",
\* "Bearerabc123" and "Basic abc123" give Missing Token (400), and a token
\* comes back only from <scheme> <separator> <non-empty token>.
C4_HeaderExtraction ==
    (Done /\ ~Skipped /\ mw.extractor.kind = "header"
          /\ mw.extractor.name = "Authorization" /\ mw.extractor.authScheme = "Bearer") =>
        LET h == req.Header.Authorization
        IN  /\ (h = "Bearer abc123" => (auth.ok /\ auth.token = "abc123"))
            /\ (h \in {"Bearerabc123", "Basic abc123"} =>
                    /\ ~auth.ok
                    /\ result.kind = "error"
                    /\ result.Code = 400
                    /\ result.Message = MissingMessage)
            /\ (auth.ok => (auth.token # "" /\ h = "Bearer " \o auth.token))

\* C5 (as claimed): once a token is extracted the provider sees exactly one
\* VerifyIDToken call, then at most one GetUser call, made only after a
\* successful verification with X-GetUser: true and keyed by the verified UID.
C5_RemoteCallsOnce ==
    (Done /\ ~Skipped /\ auth.ok) =>
        LET verify == [op |-> "VerifyIDToken", arg |-> auth.token]
            fetch  == [op |-> "GetUser", arg |-> remote.tok.UID]
        IN  \/ RemoteCalls = <<verify>>
            \/ /\ RemoteCalls = <<verify, fetch>>
               /\ remote.verifyOK
               /\ WantUser

\* C6 (as claimed): whenever the handler returns an error the context holds
\* none of the middleware's entries.
C6_NoPartialState ==
    (Done /\ result.kind = "error") =>
        Written \cap {mw.config.ContextIDKey, "auth-provider", mw.config.ContextUserKey} = {}

\* C6 (amended): when the handler returns an error, the context is untouched
\* if the token was missing or failed verification; if verification had
\* succeeded (the profile fetch or the roles lookup failed) the identity key
\* and the provider tag are already written.  The user-profile key is written
\* only on executions that reach next.
C6_PartialStateAfterVerify ==
    /\ (Done /\ result.kind = "error") =>
          IF auth.ok /\ remote.verifyOK
          THEN {mw.config.ContextIDKey, "auth-provider"} \subseteq Written
          ELSE Written = {}
    /\ (Done /\ mw.config.ContextUserKey \in Written) => result.kind = "next"

C6_Witness ==
    /\ Done /\ result.kind = "error"
    /\ remote.verifyOK /\ WantUser /\ ~remote.userOK
    /\ mw.config.ContextIDKey \in Written
    /\ mw.config.ContextUserKey \notin Written

\* C7 (as claimed): with a valid credential document, any TokenLookup whose
\* source tag is neither query nor cookie, a string without ":" included,
\* builds the middleware with header extraction.
C7_LookupFallsBackToHeader ==
    (phase # "start" /\ input.CredentialJSON = ServiceAccountJSON
        /\ Split(input.TokenLookup, ":")[1] \notin {"query", "cookie"}) =>
        /\ mw.status = "ready"
        /\ mw.extractor.kind = "header"

\* C8 (as claimed): WithConfig fills every unset field with its documented
\* default; a token verified under an empty ContextIDKey is stored under
\* "id-key".
C8_DefaultsFilled ==
    /\ (mw.status = "ready") =>
          /\ (input.ContextIDKey = "" => mw.config.ContextIDKey = "id-key")
          /\ (input.ContextUserKey = "" => mw.config.ContextUserKey = "user")
          /\ (input.TokenLookup = "" => mw.config.TokenLookup = "header:Authorization")
          /\ (input.AuthScheme = "" => mw.config.AuthScheme = "Bearer")
          /\ (input.Skipper = "nil" => mw.config.Skipper = "DefaultSkipper")
    /\ (Done /\ input.Skipper = "nil") => ~Skipped
    /\ (Done /\ input.ContextIDKey = "" /\ result.kind = "next" /\ auth.ok) =>
          "id-key" \in Written

\* C9 (as claimed): GetRoles is called with the verified token's email, the
\* value stored under ContextUserIDKey, and what it returns for that email is
\* stored under "roles".
C9_RolesByEmail ==
    (Done /\ CountOp("GetRoles") > 0 /\ Len(remote.tok.Identities.email) > 0) =>
        LET email == remote.tok.Identities.email[1]
        IN  /\ ctx[mw.config.ContextUserIDKey] = email
            /\ \A i \in 1..Len(events) :
                  events[i].op = "GetRoles" => events[i].arg = email
            /\ (ContextKeyRoles \in Written =>
                  ctx[ContextKeyRoles] = GetRolesApply(mw.config.GetRoles, email))

\* C10: next is invoked at most once, and only after a skip or after the
\* extracted token was verified (and the profile fetched when X-GetUser is
\* "true"); a failed extraction is a 400 with no remote call.
C10_NextOnlyWhenAuthenticated ==
    Done =>
        /\ CountOp("next") <= 1
        /\ (CountOp("next") = 1) = (result.kind = "next")
        /\ (CountOp("next") = 1 =>
              \/ Skipped
              \/ /\ auth.ok
                 /\ [op |-> "VerifyIDToken", arg |-> auth.token] \in
                       {events[i] : i \in 1..Len(events)}
                 /\ remote.verifyOK
                 /\ (WantUser => remote.userOK))
        /\ ((~Skipped /\ ~auth.ok) =>
              /\ result.kind = "error"
              /\ result.Code = 400
              /\ result.Message = MissingMessage
              /\ RemoteCalls = <<>>)

C10_Witness ==
    /\ Done /\ ~Skipped /\ ~auth.ok
    /\ req.Header.Authorization = "Basic abc123"
    /\ result.Code = 400
    /\ events = <<>>

====
